---- MODULE Spec2Model ----
(***************************************************************************)
(* A model of sysstate4ha/tool.py: the cached CPU sampler (CPUUsage), the  *)
(* entity registry built by SysState4HA.__init__, the discovery document   *)
(* and the expose / remove commands, and the publish loop.                 *)
(*                                                                         *)
(* Percentages are integers in tenths of a percent (psutil rounds to one   *)
(* decimal digit), time is in integer units, and a string is a sequence of *)
(* one-character strings, so that formatting, normalisation, JSON encoding *)
(* and shell quoting are computed character by character.                  *)
(***************************************************************************)
EXTENDS Integers, Sequences, FiniteSets, TLC

(* ------------------------------ bounds -------------------------------- *)

\* the largest core count the provider reports
MaxCores == 3
\* the longest list of partitions the provider reports
MaxParts == 2
\* how many OS CPU samples one run of the sampler takes at most
MaxSamples == 3
\* the largest core count and longest partition list of a machine that runs
\* publish
MaxLoopCores == 2
MaxLoopParts == 1

VARIABLES
    pc,              \* where the process is: see the specifications below
    ncpu,            \* psutil.cpu_count()
    disk_parts,      \* psutil.disk_partitions()
    mid,             \* get_machiene_id(len_id)
    host_alias,      \* SysState4HA.host_alias
    prod_name,       \* get_machine_product_name()
    interval,        \* SysState4HA.interval (update_interval)
    entities,        \* SysState4HA.entities
    discovery,       \* what _generate_discovery_JSON built last, if called
    idx,             \* publish: the index of the entity the sweep is at
    published,       \* publish: the calls of _pub in the current sweep
    sweeps,          \* history: the sweeps publish has started
    elapsed,         \* publish: t1 - t0 of the sweep that just ended
    sleepFor,        \* publish: the argument of time.sleep
    exit,            \* publish: the exception that ended it, if any
    failures,        \* history: the calls of _pub that returned a non-zero status
    retained,        \* the broker: the retained payload of each topic written
    ops,             \* history: the calls of subprocess.run by expose and remove
    fetched,         \* CPUUsage.fetched: keys served since the last sample
    cpu_usage,       \* CPUUsage.cpu_usage: the per-core vector, in tenths
    cpu_usage_avrg,  \* CPUUsage.cpu_usage_avrg, in tenths
    nsamples,        \* history: how many times psutil.cpu_percent was called
    passCalls,       \* history: the keys served from the sample in memory, in order
    last             \* history: the last call of CPUUsage.get

samplerVars == <<fetched, cpu_usage, cpu_usage_avrg, nsamples, passCalls, last>>

inputVars == <<ncpu, disk_parts, mid, host_alias, prod_name, interval>>

agentVars == <<inputVars, entities, discovery>>

brokerVars == <<retained, ops>>

loopVars == <<idx, published, sweeps, elapsed, sleepFor, exit, failures>>

(* ------------------------------ strings -------------------------------- *)

\* the printable ASCII characters, code points 32 .. 126, in order (the
\* backquote, code point 96, is spelled out)
Printable ==
  <<
    " ", "!", "\"", "#", "$", "%", "&", "'", "(", ")", "*", "+",
    ",", "-", ".", "/", "0", "1", "2", "3", "4", "5", "6", "7",
    "8", "9", ":", ";", "<", "=", ">", "?", "@", "A", "B", "C",
    "D", "E", "F", "G", "H", "I", "J", "K", "L", "M", "N", "O",
    "P", "Q", "R", "S", "T", "U", "V", "W", "X", "Y", "Z", "[",
    "\\", "]", "^", "_", "BACKTICK", "a", "b", "c", "d", "e", "f", "g",
    "h", "i", "j", "k", "l", "m", "n", "o", "p", "q", "r", "s",
    "t", "u", "v", "w", "x", "y", "z", "{", "|", "}", "~"
  >>

\* ord(c), for the characters the model uses
Ord(c) == IF c = "\n" THEN 10 ELSE 31 + (CHOOSE i \in 1 .. Len(Printable) : Printable[i] = c)

Chr(n) == Printable[n - 31]

\* str.lower() on one character
LowerChar(c) == IF Ord(c) \in 65 .. 90 THEN Chr(Ord(c) + 32) ELSE c

\* str.lower()
Lower(s) == [i \in 1 .. Len(s) |-> LowerChar(s[i])]

\* str.replace(old, new) for one-character old and new
Replace1(s, old, new) == [i \in 1 .. Len(s) |-> IF s[i] = old THEN new ELSE s[i]]

\* str(n) for n >= 0
RECURSIVE Str(_)
Str(n) == IF n < 10 THEN <<Chr(48 + n)>> ELSE Str(n \div 10) \o <<Chr(48 + (n % 10))>>

\* the concatenation of the strings of a sequence of strings
RECURSIVE Cat(_)
Cat(ss) ==
    IF Len(ss) = 0 THEN <<>>
    ELSE IF Len(ss) = 1 THEN ss[1]
    ELSE LET h == Len(ss) \div 2
         IN  Cat(SubSeq(ss, 1, h)) \o Cat(SubSeq(ss, h + 1, Len(ss)))

\* the sequences over S of length at most n
SeqsUpTo(S, n) == UNION {[1 .. k -> S] : k \in 0 .. n}

S_CPU_all == <<"C", "P", "U", " ", "a", "l", "l">>
S_CPU_ == <<"C", "P", "U", " ">>
S_uptime == <<"u", "p", "t", "i", "m", "e">>
S_percent == <<"%">>
S_sensor == <<"s", "e", "n", "s", "o", "r">>
S_abc123 == <<"a", "b", "c", "1", "2", "3">>
S_0f9e8d == <<"0", "f", "9", "e", "8", "d">>
S_dev_sda1 == <<"/", "d", "e", "v", "/", "s", "d", "a", "1">>
S_dev_md_0 == <<"/", "d", "e", "v", "/", "m", "d", "_", "0">>
S_dev_md0 == <<"/", "d", "e", "v", "/", "m", "d", "/", "0">>
S_root == <<"/">>
S_home == <<"/", "h", "o", "m", "e">>
S_ext4 == <<"e", "x", "t", "4">>
S_host == <<"p", "i", "4">>
S_product == <<"N", "U", "C", " ", "1", "1", "\n">>
S_origin == <<"l", "i", "n", "u", "x", " ", "m", "o", "s", "q", "u", "i", "t", "t", "o">>

vars == <<pc, agentVars, samplerVars, loopVars, brokerVars>>

(* --------------------------- CPUUsage ---------------------------------- *)

\* the key 'all' of CPUUsage.get; the core keys are 0 .. N-1
ALL == -1

Keys(n) == {ALL} \cup (0 .. n - 1)

\* the readings psutil.cpu_percent may return for one core, in tenths
CpuVals == {1, 7}

\* what psutil.cpu_percent(percpu=True) may return on a machine with n cores
Samples(n) == [1 .. n -> CpuVals]

RECURSIVE Sum(_)
Sum(s) == IF s = <<>> THEN 0 ELSE Head(s) + Sum(Tail(s))

(* Python's float is IEEE 754 binary64. A non-negative float is modelled by   *)
(* the integer x with value x * 2^-FracBits: the sequence of its digits in   *)
(* base 2^LimbBits, least significant first and with no leading zero         *)
(* (Integers of TLC are 32 bits wide). Every float the sampler computes with *)
(* up to 128 cores is such a value: none is below 2^-7, and the last binary  *)
(* digit of a binary64 that is at least 2^-7 is worth 2^-59 or more. An      *)
(* operand is bound by CHOOSE r \in {e(v) : v \in {x}} where TLC would        *)
(* otherwise compute x again at every use.                                   *)
LimbBits == 15
Base == 32768
FracLimbs == 4
FracBits == FracLimbs * LimbBits
\* the bits of the significand of a binary64
Precision == 53

\* 2^k for k in 0 .. LimbBits
Pow2(k) == <<1, 2, 4, 8, 16, 32, 64, 128, 256, 512, 1024, 2048, 4096, 8192,
             16384, 32768>>[k + 1]

\* digit i of x
LimbAt(x, i) == IF i \in 1 .. Len(x) THEN x[i] ELSE 0

\* x without its leading zeros
Norm(x) ==
    SubSeq(x, 1, IF \A i \in 1 .. Len(x) : x[i] = 0 THEN 0
                 ELSE CHOOSE i \in 1 .. Len(x) :
                          x[i] # 0 /\ \A j \in i + 1 .. Len(x) : x[j] = 0)

\* the number of binary digits of x (x has no leading zero)
BitLen(x) ==
    IF x = <<>> THEN 0
    ELSE LimbBits * (Len(x) - 1)
         + CHOOSE k \in 1 .. LimbBits : Pow2(k - 1) <= x[Len(x)] /\ x[Len(x)] < Pow2(k)

\* the binary digit of x that is worth 2^p
Bit(x, p) == (LimbAt(x, p \div LimbBits + 1) \div Pow2(p % LimbBits)) % 2

\* the binary digits of x worth less than 2^p are all zero
LowBitsZero(x, p) ==
    /\ \A i \in 1 .. p \div LimbBits : LimbAt(x, i) = 0
    /\ LimbAt(x, p \div LimbBits + 1) % Pow2(p % LimbBits) = 0

\* x with its binary digits worth less than 2^p set to zero
ClearLow(x, p) ==
    [i \in 1 .. Len(x) |->
        IF i <= p \div LimbBits THEN 0
        ELSE IF i = p \div LimbBits + 1 THEN x[i] - (x[i] % Pow2(p % LimbBits))
        ELSE x[i]]

\* 2^p
OneAt(p) ==
    [i \in 1 .. p \div LimbBits + 1 |->
        IF i = p \div LimbBits + 1 THEN Pow2(p % LimbBits) ELSE 0]

\* the digits of a + b from digit i on, c being the carry into digit i
RECURSIVE AddFrom(_, _, _, _)
AddFrom(a, b, i, c) ==
    IF i > Len(a) /\ i > Len(b) THEN (IF c > 0 THEN <<c>> ELSE <<>>)
    ELSE <<(LimbAt(a, i) + LimbAt(b, i) + c) % Base>>
         \o AddFrom(a, b, i + 1, (LimbAt(a, i) + LimbAt(b, i) + c) \div Base)

\* a + b, exactly
AddBig(a, b) == CHOOSE r \in {AddFrom(p[1], p[2], 1, 0) : p \in {<<a, b>>}} : TRUE

\* the digits of 10 * a from digit i on, c being the carry into digit i
RECURSIVE Mul10From(_, _, _)
Mul10From(a, i, c) ==
    IF i > Len(a) THEN (IF c > 0 THEN <<c>> ELSE <<>>)
    ELSE <<(10 * a[i] + c) % Base>> \o Mul10From(a, i + 1, (10 * a[i] + c) \div Base)

\* long division of a by the natural number n, 1 <= n < 2^16, at digit i: q
\* holds the quotient of the digits above i and r what they left; the
\* quotient and the remainder
RECURSIVE DivFrom(_, _, _, _, _)
DivFrom(a, n, i, r, q) ==
    IF i = 0 THEN [q |-> q, r |-> r]
    ELSE DivFrom(a, n, i - 1, (Base * r + a[i]) % n,
                 <<(Base * r + a[i]) \div n>> \o q)

\* the binary64 nearest to the value of x, or to a value strictly between x
\* and x + 1 when inexact: round to nearest, ties to even
RoundNorm(b, inexact) ==
    LET sh == BitLen(b) - Precision
    IN  IF sh <= 0 THEN b
        ELSE LET sticky == inexact \/ ~LowBitsZero(b, sh - 1)
                 up     == Bit(b, sh - 1) = 1 /\ (sticky \/ Bit(b, sh) = 1)
             IN  IF up THEN AddBig(ClearLow(b, sh), OneAt(sh))
                 ELSE ClearLow(b, sh)

\* Round for digits with leading zeros
Round(x, inexact) == CHOOSE r \in {RoundNorm(b, inexact) : b \in {Norm(x)}} : TRUE

\* the float a / n for a float a and an int n
FDiv(a, n) ==
    CHOOSE r \in {Round(d.q, d.r # 0) :
                    d \in {DivFrom(v, n, Len(v), 0, <<>>) : v \in {a}}} : TRUE

\* the float a + b
FAdd(a, b) == Round(AddBig(a, b), FALSE)

\* the float 10 * a
FMul10(a) == CHOOSE r \in {Round(Mul10From(v, 1, 0), FALSE) : v \in {a}} : TRUE

\* the float psutil reports for t tenths of a percent, 0 <= t < 2^15:
\* round(x, 1), the binary64 nearest to t / 10
FromTenths(t) == FDiv([i \in 1 .. FracLimbs + 1 |-> IF i <= FracLimbs THEN 0 ELSE t], 10)

\* int(a): the integral part of the float a, below 2^30
IntPart(a) ==
    CHOOSE r \in {LimbAt(v, FracLimbs + 1) + Base * LimbAt(v, FracLimbs + 2) :
                    v \in {a}} : TRUE

\* sum(self.cpu_usage): the floats are added from left to right, each
\* addition rounded (the built-in sum of Python before 3.12)
RECURSIVE FSum(_, _)
FSum(usage, k) ==
    IF k = 0 THEN <<>> ELSE FAdd(FSum(usage, k - 1), FromTenths(usage[k]))

\* int(10*sum(self.cpu_usage) / len(self.cpu_usage)) / 10, in tenths: the
\* last division gives the float nearest to that many tenths
FloatAvrg(usage) == IntPart(FDiv(FMul10(FSum(usage, Len(usage))), Len(usage)))

\* FloatAvrg of every reading of a machine of the model, computed once (the
\* merge with the empty function makes TLC tabulate it)
AvrgTable ==
    [usage \in UNION {Samples(n) : n \in 0 .. IF MaxCores > MaxLoopCores
                                                THEN MaxCores ELSE MaxLoopCores} |->
        FloatAvrg(usage)] @@ <<>>

\* a mutant of Avrg: the mean is rounded up to the next tenth
Avrg_Ceil(usage) == (Sum(usage) + Len(usage) - 1) \div Len(usage)

\* CPUUsage.update: self.cpu_usage_avrg, in tenths
Avrg(usage) == AvrgTable[usage]

\* a mutant of ShouldUpdate: every call resamples
ShouldUpdate_Always(what, served) == TRUE

\* a mutant of ShouldUpdate: only a pass in which every key was served resamples
ShouldUpdate_FullPass(what, served) ==
    what \in served /\ served = Keys(Len(cpu_usage))

\* CPUUsage.get: "if what in self.fetched"
ShouldUpdate(what, served) == what \in served

\* CPUUsage.get's return value, read from the sample in memory
Reading(what, usage, avrg) == IF what = ALL THEN avrg ELSE usage[what + 1]

\* no call of get yet. tick flips at every call; called: a call was made
\* since the sampler was constructed or refreshed from outside; prev holds
\* the key of the call before the last one when both were made since then
NoCall == [what |-> ALL, value |-> 0, sample |-> 0, tick |-> 0,
           called |-> FALSE, prev |-> {}]

\* CPUUsage.__init__: one call of update
SamplerInit(first) ==
    /\ fetched = {}
    /\ cpu_usage = first
    /\ cpu_usage_avrg = Avrg(first)
    /\ nsamples = 1
    /\ passCalls = <<>>
    /\ last = NoCall

\* CPUUsage.get(what), where fresh is what psutil.cpu_percent returns if asked
CPUUsageGet(what, fresh) ==
    LET upd   == ShouldUpdate(what, fetched)
        \* CPUUsage.update: fetched, cpu_usage and cpu_usage_avrg are reset
        f1    == IF upd THEN {} ELSE fetched
        u1    == IF upd THEN fresh ELSE cpu_usage
        a1    == IF upd THEN Avrg(fresh) ELSE cpu_usage_avrg
        n1    == IF upd THEN nsamples + 1 ELSE nsamples
    IN  /\ fetched' = f1 \cup {what}
        /\ cpu_usage' = u1
        /\ cpu_usage_avrg' = a1
        /\ nsamples' = n1
        /\ passCalls' = IF upd THEN <<what>> ELSE Append(passCalls, what)
        /\ last' = [what |-> what, value |-> Reading(what, u1, a1),
                    sample |-> n1, tick |-> 1 - last.tick, called |-> TRUE,
                    prev |-> IF last.called THEN {last.what} ELSE {}]

\* what psutil.cpu_percent may return during get(what): it is only asked when
\* get resamples
FreshSamples(what) ==
    IF ShouldUpdate(what, fetched) THEN Samples(Len(cpu_usage)) ELSE {cpu_usage}

\* CPUUsage.update(), called from outside get
CPUUsageUpdate(fresh) ==
    /\ fetched' = {}
    /\ cpu_usage' = fresh
    /\ cpu_usage_avrg' = Avrg(fresh)
    /\ nsamples' = nsamples + 1
    /\ passCalls' = <<>>
    /\ last' = [last EXCEPT !.called = FALSE, !.prev = {}]

(* ---------------- the sampler on its own: SpecSampler ------------------ *)

\* no agent around the sampler
NoAgent ==
    /\ ncpu = 0
    /\ disk_parts = <<>>
    /\ mid = <<>>
    /\ host_alias = <<>>
    /\ prod_name = <<>>
    /\ interval = 0
    /\ entities = <<>>
    /\ discovery = <<>>

\* publish was not called
NoLoop ==
    /\ idx = 0
    /\ published = <<>>
    /\ sweeps = 0
    /\ elapsed = 0
    /\ sleepFor = 0
    /\ exit = ""
    /\ failures = 0

\* a broker that holds no retained message, and no command run yet
NoBroker ==
    /\ retained = <<>>
    /\ ops = <<>>

SInit ==
    /\ pc = "sampler"
    /\ NoAgent
    /\ NoLoop
    /\ NoBroker
    /\ \E n \in 1 .. MaxCores : \E first \in Samples(n) : SamplerInit(first)

\* one call of get by a client of the sampler
Get(what) ==
    /\ pc = "sampler"
    /\ ShouldUpdate(what, fetched) => nsamples < MaxSamples
    /\ \E fresh \in FreshSamples(what) : CPUUsageGet(what, fresh)
    /\ UNCHANGED <<pc, brokerVars, agentVars, loopVars>>

\* a client refreshes the sampler itself (update is a public method; the
\* program calls it from __init__ and get only)
Update ==
    /\ pc = "sampler"
    /\ nsamples < MaxSamples
    /\ \E fresh \in Samples(Len(cpu_usage)) : CPUUsageUpdate(fresh)
    /\ UNCHANGED <<pc, brokerVars, agentVars, loopVars>>

SNext ==
    \/ \E what \in Keys(Len(cpu_usage)) : Get(what)
    \/ Update


SpecSampler == SInit /\ [][SNext]_vars

\* all, 0, 1, ..., n-1
Canon(n) == [i \in 1 .. n + 1 |-> IF i = 1 THEN ALL ELSE i - 2]

IsPrefix(s, t) == Len(s) <= Len(t) /\ \A i \in 1 .. Len(s) : s[i] = t[i]

\* the step is one call of get
GetCalled == last'.tick # last.tick

\* C1: on a freshly sampled sampler (constructed or refreshed: no key or only
\* `all` served so far, in the order all, 0, 1, ...), requesting the next key
\* of all, 0, ..., N-1 takes no OS sample and returns the reading of the
\* sample that was in memory before the request; so the N+1 requests are all
\* served from one sample.
C1_OnePassOneSample ==
    [][ ( /\ GetCalled
          /\ IsPrefix(passCalls, Canon(Len(cpu_usage)))
          /\ Len(passCalls) <= Len(cpu_usage)
          /\ last'.what = Canon(Len(cpu_usage))[Len(passCalls) + 1] )
        => ( /\ nsamples' = nsamples
             /\ cpu_usage' = cpu_usage
             /\ last'.sample = nsamples
             /\ last'.value = Reading(last'.what, cpu_usage, cpu_usage_avrg)
             /\ passCalls' = Append(passCalls, last'.what) ) ]_vars

\* the full pass all, 0, ..., N-1 was served after a refresh, on the largest machine
C1_Witness ==
    /\ Len(cpu_usage) = MaxCores
    /\ passCalls = Canon(MaxCores)
    /\ nsamples > 1

\* C2: a call of get takes a new OS sample exactly when its key was already
\* served since the last sample; it then takes exactly one, the served set
\* becomes that key alone and the value returned is read from the new sample.
\* A call whose key was not served takes none and adds the key to the served
\* set. Two calls get(all) in a row: the second takes exactly one sample.
C2_ResampleIffServed ==
    [][ GetCalled =>
        LET w == last'.what IN
        /\ (nsamples' # nsamples) <=> (w \in fetched)
        /\ w \in fetched =>
              /\ nsamples' = nsamples + 1
              /\ fetched' = {w}
              /\ cpu_usage_avrg' = Avrg(cpu_usage')
              /\ last'.sample = nsamples'
              /\ last'.value = Reading(w, cpu_usage', cpu_usage_avrg')
        /\ w \notin fetched =>
              /\ fetched' = fetched \cup {w}
              /\ cpu_usage' = cpu_usage
              /\ cpu_usage_avrg' = cpu_usage_avrg
              /\ last'.value = Reading(w, cpu_usage, cpu_usage_avrg)
        /\ (last.called /\ last.what = ALL /\ w = ALL) =>
              nsamples' = nsamples + 1 ]_vars

\* get(all) was called twice in a row and the second call resampled
C2_Witness ==
    /\ last.called
    /\ last.prev = {ALL}
    /\ last.what = ALL
    /\ fetched = {ALL}
    /\ last.sample = nsamples
    /\ nsamples >= 2

\* C4 as claimed: while some served key other than the requested one has not
\* been requested again, get takes no new OS sample.
C4_Claimed ==
    [][ (GetCalled /\ fetched \ {last'.what} # {}) => nsamples' = nsamples ]_vars

\* C4 as amended: while the requested key itself has not been served since
\* the last sample, get takes no new OS sample and returns the reading of the
\* memoized sample, whatever else was served; a served key requested again
\* resamples even when other served keys were not requested again.
C4_NoResampleUntilRepeat ==
    [][ GetCalled =>
        /\ (last'.what \notin fetched) =>
              /\ nsamples' = nsamples
              /\ cpu_usage' = cpu_usage
              /\ last'.value = Reading(last'.what, cpu_usage, cpu_usage_avrg)
        /\ (last'.what \in fetched /\ fetched \ {last'.what} # {}) =>
              nsamples' = nsamples + 1 ]_vars

\* a third key was served from a memoized sample that two other keys were
\* served from before
C4_Witness ==
    /\ Len(passCalls) >= 3
    /\ last.called
    /\ last.sample = nsamples
    /\ last.what = passCalls[Len(passCalls)]

\* the keys of passCalls
Served == {passCalls[i] : i \in 1 .. Len(passCalls)}

\* the mean of the per-core tenths, truncated, in exact arithmetic
ExactAvrg(usage) == Sum(usage) \div Len(usage)

(* ------------------------- Entity and the registry --------------------- *)

\* Entity.qual_name: name.replace(" ", "_").replace("/", "_").lower()
QualName(name) == Lower(Replace1(Replace1(name, " ", "_"), "/", "_"))

\* Entity.state_topic: f"{self.mid}/{self.qual_name}"
StateTopic(m, qual_name) == m \o <<"/">> \o qual_name

\* Entity.unique_id: f"{self.mid}_{self.qual_name}"
UniqueId(m, qual_name) == m \o <<"_">> \o qual_name

\* an optional string: None, or a string
None == [some |-> FALSE, val |-> <<>>]
Some(s) == [some |-> TRUE, val |-> s]

\* the getters the registry binds: CPUUsage.getter(what), the disk usage of
\* the mount point x, get_uptime
CpuGetter(what) == [kind |-> "cpu", what |-> what, x |-> <<>>]
DiskGetter(x) == [kind |-> "disk", what |-> ALL, x |-> x]
UptimeGetter == [kind |-> "uptime", what |-> ALL, x |-> <<>>]

\* Entity.__init__ (yaml_keys, which only prepare_install reads, is left out)
Entity(name, m, unit_of_measurement, get, full_name, card_name) ==
    [name |-> name,
     mid |-> m,
     unit_of_measurement |-> unit_of_measurement,
     get |-> get,
     full_name |-> full_name,
     card_name |-> IF card_name.some THEN card_name.val ELSE name,
     qual_name |-> QualName(name),
     state_topic |-> StateTopic(m, QualName(name)),
     unique_id |-> UniqueId(m, QualName(name))]

\* a mutant of CoreRange: the last core is left out
CoreRange_Short(n) == [i \in 1 .. n - 1 |-> i]

\* range(1, psutil.cpu_count() + 1)
CoreRange(n) == [i \in 1 .. n |-> i]

\* a mutant of CoreEntity: the entity of core i reads the sampler key i
CoreEntity_KeyI(i, m) ==
    Entity(S_CPU_ \o Str(i), m, Some(S_percent), CpuGetter(i), None, None)

\* the entity of core i: name "CPU i", bound to the sampler key i - 1
CoreEntity(i, m) ==
    Entity(S_CPU_ \o Str(i), m, Some(S_percent), CpuGetter(i - 1), None, None)

\* the entity of partition dp: named by its device, reading its mount point
DiskEntity(dp, m) ==
    Entity(dp.device, m, Some(S_percent), DiskGetter(dp.mountpoint),
           Some(dp.device \o <<":", " ">> \o dp.mountpoint \o <<" ", "(">>
                \o dp.fstype \o <<")">>),
           Some(dp.mountpoint))

\* SysState4HA.__init__: the list self.entities
Registry(n, parts, m) ==
    <<Entity(S_CPU_all, m, Some(S_percent), CpuGetter(ALL), None, None)>>
    \o [k \in 1 .. Len(CoreRange(n)) |-> CoreEntity(CoreRange(n)[k], m)]
    \o [k \in 1 .. Len(parts) |-> DiskEntity(parts[k], m)]
    \o <<Entity(S_uptime, m, None, UptimeGetter, None, None)>>

(* --------------------- _generate_discovery_JSON ------------------------ *)

\* a mutant of ComponentKey: the map is keyed by the qualified name
ComponentKey_Qual(e) == e.qual_name

\* _generate_discovery_JSON: "cmps[e.name] = ..."
ComponentKey(e) == e.name

\* one entry of the components map
Component(e) ==
    [name |-> e.name,
     platform |-> S_sensor,
     state_topic |-> e.state_topic,
     unique_id |-> e.unique_id,
     unit_of_measurement |-> e.unit_of_measurement]

\* the dict cmps after the first k entities: a later entity overwrites an
\* earlier one of the same key
RECURSIVE Cmps(_, _)
Cmps(ents, k) ==
    IF k = 0 THEN <<>>
    ELSE LET before == Cmps(ents, k - 1)
             e == ents[k]
         IN  [key \in DOMAIN before \cup {ComponentKey(e)} |->
                 IF key = ComponentKey(e) THEN Component(e) ELSE before[key]]

\* the dict data of _generate_discovery_JSON
DiscoveryData(ents, m, alias, model) ==
    [origin |-> [name |-> S_origin],
     components |-> Cmps(ents, Len(ents)),
     device |-> [name |-> alias, identifiers |-> <<m>>, model |-> model]]

(* --------------- the registry on its own: SpecRegistry ----------------- *)

\* a sampler that was not constructed yet
NoSampler ==
    /\ fetched = {}
    /\ cpu_usage = <<>>
    /\ cpu_usage_avrg = 0
    /\ nsamples = 0
    /\ passCalls = <<>>
    /\ last = NoCall

\* the devices and mount points psutil.disk_partitions may report: the same
\* device can be mounted at several mount points (bind mounts, subvolumes)
Devices == {S_dev_sda1, S_dev_md_0, S_dev_md0}
MountPoints == {S_root, S_home}
Partitions == [device : Devices, mountpoint : MountPoints, fstype : {S_ext4}]

MachineIds == {S_abc123, S_0f9e8d}

\* a mutant of ZeroDivision: the division never raises
ZeroDivision_Never(usage) == FALSE

\* CPUUsage.update: "/ len(self.cpu_usage)" raises ZeroDivisionError when
\* psutil.cpu_percent returned an empty list
ZeroDivision(usage) == Len(usage) = 0

\* SysState4HA.__init__: CPUUsage() takes the first sample and raises when it
\* is empty, before self.entities exists; otherwise the registry is built
Construct ==
    /\ pc = "new"
    /\ \E first \in Samples(ncpu) :
          IF ZeroDivision(first)
          THEN /\ pc' = "error"
               /\ UNCHANGED <<samplerVars, entities>>
          ELSE /\ pc' = "ready"
               /\ fetched' = {}
               /\ cpu_usage' = first
               /\ cpu_usage_avrg' = Avrg(first)
               /\ nsamples' = nsamples + 1
               /\ UNCHANGED <<passCalls, last>>
               /\ entities' = Registry(ncpu, disk_parts, mid)
    /\ UNCHANGED <<brokerVars, inputVars, discovery, loopVars>>

\* one call of _generate_discovery_JSON (before it is serialised)
GenerateDiscovery ==
    /\ pc = "ready"
    /\ discovery = <<>>
    /\ discovery' = <<DiscoveryData(entities, mid, host_alias, prod_name)>>
    /\ UNCHANGED <<pc, brokerVars, inputVars, entities, samplerVars, loopVars>>

RInit ==
    /\ pc = "new"
    /\ ncpu \in 0 .. MaxCores
    /\ disk_parts \in SeqsUpTo(Partitions, MaxParts)
    /\ mid \in MachineIds
    /\ host_alias = S_host
    /\ prod_name = S_product
    /\ interval = 2
    /\ entities = <<>>
    /\ discovery = <<>>
    /\ NoSampler
    /\ NoLoop
    /\ NoBroker

RNext == Construct \/ GenerateDiscovery

SpecRegistry == RInit /\ [][RNext]_vars

Names(ents) == {ents[i].name : i \in 1 .. Len(ents)}

\* the entities of one machine: the registry exists
Constructed == pc = "ready"

\* C5: the registry of a machine with N >= 1 cores and any list of partitions,
\* the empty one included, holds 1 + N + |partitions| + 1 entities: one
\* aggregate CPU, N per-core CPU, one per partition, one uptime.
C5_RegistrySize ==
    Constructed =>
        /\ ncpu >= 1
        /\ Len(entities) = 1 + ncpu + Len(disk_parts) + 1
        /\ Cardinality({i \in 1 .. Len(entities) :
               entities[i].get = CpuGetter(ALL)}) = 1
        /\ Cardinality({i \in 1 .. Len(entities) :
               entities[i].get.kind = "cpu" /\ entities[i].get.what # ALL}) = ncpu
        /\ Cardinality({i \in 1 .. Len(entities) :
               entities[i].get.kind = "disk"}) = Len(disk_parts)
        /\ Cardinality({i \in 1 .. Len(entities) :
               entities[i].get.kind = "uptime"}) = 1

\* a registry of the largest machine with the longest list of partitions, and
\* one with no partition
C5_Witness ==
    /\ Constructed
    /\ ncpu = MaxCores
    /\ Len(disk_parts) = MaxParts
    /\ Len(entities) = MaxCores + MaxParts + 2

\* C6 as claimed: no two entities of one registry have the same qual_name,
\* state_topic or unique_id.
C6_Claimed ==
    Constructed =>
        \A i, j \in 1 .. Len(entities) :
            i # j => /\ entities[i].qual_name # entities[j].qual_name
                     /\ entities[i].state_topic # entities[j].state_topic
                     /\ entities[i].unique_id # entities[j].unique_id

\* C7: the keys of the components map are the display names of the entities,
\* and the entry of every entity e has state_topic = mid "/" qual_name(e) and
\* unique_id = mid "_" qual_name(e); on machine abc123 with 2 cores and the
\* one partition /dev/sda1 the keys are CPU all, CPU 1, CPU 2, /dev/sda1, uptime.
C7_Components ==
    discovery # <<>> =>
        LET c == discovery[1].components IN
        /\ DOMAIN c = Names(entities)
        /\ \A i \in 1 .. Len(entities) :
              LET e == entities[i]
                  q == Lower(Replace1(Replace1(e.name, " ", "_"), "/", "_"))
              IN  /\ c[e.name].name = e.name
                  /\ c[e.name].state_topic = mid \o <<"/">> \o q
                  /\ c[e.name].unique_id = mid \o <<"_">> \o q
                  /\ SubSeq(c[e.name].state_topic, 1, Len(mid) + 1) = mid \o <<"/">>
        /\ ( /\ mid = S_abc123
             /\ ncpu = 2
             /\ Len(disk_parts) = 1
             /\ disk_parts[1].device = S_dev_sda1 )
           => DOMAIN c = {S_CPU_all, S_CPU_ \o <<"1">>, S_CPU_ \o <<"2">>,
                          S_dev_sda1, S_uptime}

\* the document of machine abc123 with 2 cores and the partition /dev/sda1
C7_Witness ==
    /\ discovery # <<>>
    /\ mid = S_abc123
    /\ ncpu = 2
    /\ Len(disk_parts) = 1
    /\ disk_parts[1].device = S_dev_sda1
    /\ Cardinality(DOMAIN discovery[1].components) = 5

\* C17: the registry holds, in this order, the aggregate CPU entity (key
\* all), the core entities CPU 1 .. CPU N with CPU i bound to the sampler key
\* i - 1, one entity per partition in the order of psutil.disk_partitions
\* (named by the device, reading the mount point), and the uptime entity.
C17_RegistryOrder ==
    Constructed =>
        /\ entities[1].name = S_CPU_all
        /\ entities[1].get = CpuGetter(ALL)
        /\ \A i \in 1 .. ncpu :
              /\ entities[1 + i].name = S_CPU_ \o Str(i)
              /\ entities[1 + i].get = CpuGetter(i - 1)
        /\ \A k \in 1 .. Len(disk_parts) :
              /\ entities[1 + ncpu + k].name = disk_parts[k].device
              /\ entities[1 + ncpu + k].get = DiskGetter(disk_parts[k].mountpoint)
        /\ Len(entities) = ncpu + Len(disk_parts) + 2
        /\ entities[Len(entities)].name = S_uptime
        /\ entities[Len(entities)].get = UptimeGetter

\* the registry of the largest machine, with partitions of two devices that
\* the provider reported in decreasing order of their names
C17_Witness ==
    /\ Constructed
    /\ ncpu = MaxCores
    /\ Len(disk_parts) = 2
    /\ disk_parts[1].device = S_dev_sda1
    /\ disk_parts[2].device = S_dev_md0
    /\ entities[ncpu + 2].name = S_dev_sda1
    /\ entities[ncpu + 3].name = S_dev_md0

(* ------------------------------ publish -------------------------------- *)

\* the largest configured interval, and the longest sweep, in time units
MaxInterval == 1
MaxElapsed == 2
\* how many sweeps a run of publish starts at most
MaxSweeps == 2
\* how many calls of _pub fail in one run of publish at most
MaxFailures == 1

\* what a getter returns: a number (in tenths) or a string
NumVal(t) == [num |-> TRUE, tenths |-> t, text |-> <<>>]
StrVal(str) == [num |-> FALSE, tenths |-> 0, text |-> str]

\* what psutil.disk_usage(x).percent may return, in tenths
DiskVals == {0, 421}

\* what /proc/uptime may hold, in whole seconds
UptimeSecs == {59, 90061}

\* "%02d"
Pad2(n) == IF n < 10 THEN <<"0">> \o Str(n) ELSE Str(n)

\* str(datetime.timedelta(seconds=sec))
TimedeltaStr(sec) ==
    LET days == sec \div 86400
        rest == sec % 86400
        hms  == Str(rest \div 3600) \o <<":">> \o Pad2((rest % 3600) \div 60)
                \o <<":">> \o Pad2(rest % 60)
    IN  IF days = 0 THEN hms
        ELSE Str(days) \o <<" ", "d", "a", "y">>
             \o (IF days = 1 THEN <<>> ELSE <<"s">>) \o <<",", " ">> \o hms

\* a mutant of SleepTime: the difference is not clamped
SleepTime_NoClamp(ival, dt) == ival - dt

\* publish: "s if (s := self.interval - (t1 - t0)) > 0 else 0"
SleepTime(ival, dt) == IF ival - dt > 0 THEN ival - dt ELSE 0

\* the statuses subprocess.run may report for mosquitto_pub
ReturnCodes == IF failures < MaxFailures THEN {0, 1} ELSE {0}

\* the command publish is called on a constructed agent: the first sweep starts
StartPublish ==
    /\ pc = "ready"
    /\ pc' = "sweep"
    /\ idx' = 1
    /\ published' = <<>>
    /\ sweeps' = 1
    /\ UNCHANGED <<brokerVars, agentVars, samplerVars, elapsed, sleepFor, exit, failures>>

S_opt_t == <<"-", "t">>
S_opt_m == <<"-", "m">>

\* f"{value}": the repr of a float that holds tenths, or the string itself
ValueText(value) ==
    IF value.num
    THEN Str(value.tenths \div 10) \o <<".">> \o Str(value.tenths % 10)
    ELSE value.text

\* _pub: cmd after base_cmd, f"-t {topic} -m {value}"
PubCmd(value, topic) ==
    S_opt_t \o <<" ">> \o topic \o <<" ">> \o S_opt_m \o <<" ">> \o ValueText(value)

\* where the words of a command line start: sh splits an unquoted line at
\* its blanks (the model's topics and values hold no quote, no backslash, no
\* glob and no other character sh treats specially)
WordStarts(str) == {i \in 1 .. Len(str) : str[i] # " " /\ (i = 1 \/ str[i - 1] = " ")}

\* where the word that starts at i ends
WordEnd(str, i) ==
    CHOOSE j \in i .. Len(str) :
        /\ \A k \in i .. j : str[k] # " "
        /\ j = Len(str) \/ str[j + 1] = " "

\* subprocess.run(cmd, shell=True): the arguments sh passes to the program
ShellWords(str) ==
    [r \in 1 .. Cardinality(WordStarts(str)) |->
        LET i == CHOOSE i \in WordStarts(str) :
                     Cardinality({x \in WordStarts(str) : x < i}) = r - 1
        IN  SubSeq(str, i, WordEnd(str, i))]

\* the operand of the option opt: the argument after it
OptArg(words, opt) ==
    words[1 + CHOOSE i \in 1 .. Len(words) - 1 :
                  words[i] = opt /\ \A j \in 1 .. i - 1 : words[j] # opt]

\* what the command line of _pub hands to mosquitto_pub: the operands of -t
\* and -m, and the arguments that belong to neither
Sent(words) ==
    [topic |-> OptArg(words, S_opt_t),
     message |-> OptArg(words, S_opt_m),
     stray |-> SubSeq(words, 5, Len(words))]

\* _pub: what the command line of the call hands to mosquitto_pub
SentBy(call) == Sent(ShellWords(PubCmd(call.value, call.topic)))

\* a mutant of PubLog: a failure is logged like a success
PubLog_Quiet(rc, value, topic) == [level |-> "debug", value |-> value, topic |-> topic]

\* _pub: log.debug(f"publish {value} to {topic} sucessfull") or
\* log.warning(f"failed to publish {value} to {topic} ({r.stderr})")
PubLog(rc, value, topic) ==
    [level |-> IF rc = 0 THEN "debug" ELSE "warning", value |-> value, topic |-> topic]

\* one call of _pub in the sweep: the value and the topic it was given, the
\* status mosquitto_pub returned, what _pub logged, and (history) the OS
\* sample in memory after the read, whether the read took it, and whether the
\* key had been served
PubCall(e, value, rc, sample, repeat) ==
    [topic |-> e.state_topic, value |-> value, rc |-> rc,
     log |-> PubLog(rc, value, e.state_topic),
     sample |-> sample, resampled |-> sample # nsamples,
     repeat |-> repeat]

\* one turn of "for e in self.entities": e.get() of a CPU entity, then _pub
PubCpu ==
    /\ pc = "sweep"
    /\ idx <= Len(entities)
    /\ entities[idx].get.kind = "cpu"
    /\ LET e == entities[idx]
           what == e.get.what
       IN  /\ \E fresh \in FreshSamples(what) : CPUUsageGet(what, fresh)
           /\ \E rc \in ReturnCodes :
                 /\ published' = Append(published,
                       PubCall(e, NumVal(last'.value), rc, nsamples',
                               what \in fetched))
                 /\ failures' = failures + rc
    /\ idx' = idx + 1
    /\ UNCHANGED <<pc, brokerVars, agentVars, sweeps, elapsed, sleepFor, exit>>

\* one turn of the sweep for a disk entity: psutil.disk_usage answers
PubDisk ==
    /\ pc = "sweep"
    /\ idx <= Len(entities)
    /\ entities[idx].get.kind = "disk"
    /\ \E v \in DiskVals, rc \in ReturnCodes :
          /\ published' = Append(published,
                PubCall(entities[idx], NumVal(v), rc, nsamples, FALSE))
          /\ failures' = failures + rc
    /\ idx' = idx + 1
    /\ UNCHANGED <<pc, brokerVars, agentVars, samplerVars, sweeps, elapsed, sleepFor, exit>>

\* one turn of the sweep for a disk entity: psutil.disk_usage raises (the
\* mount point is gone or unreadable); publish catches KeyboardInterrupt only
PubDiskRaises ==
    /\ pc = "sweep"
    /\ idx <= Len(entities)
    /\ entities[idx].get.kind = "disk"
    /\ pc' = "raised"
    /\ exit' = "OSError"
    /\ UNCHANGED <<brokerVars, agentVars, samplerVars, idx, published, sweeps, elapsed,
                   sleepFor, failures>>

\* one turn of the sweep for the uptime entity
PubUptime ==
    /\ pc = "sweep"
    /\ idx <= Len(entities)
    /\ entities[idx].get.kind = "uptime"
    /\ \E sec \in UptimeSecs, rc \in ReturnCodes :
          /\ published' = Append(published,
                PubCall(entities[idx], StrVal(TimedeltaStr(sec)), rc,
                        nsamples, FALSE))
          /\ failures' = failures + rc
    /\ idx' = idx + 1
    /\ UNCHANGED <<pc, brokerVars, agentVars, samplerVars, sweeps, elapsed, sleepFor, exit>>

\* a mutant of EndSweep: after a sweep the next sweep starts with no sleep
EndSweep_NoSleep ==
    /\ pc = "sweep"
    /\ idx = Len(entities) + 1
    /\ sweeps < MaxSweeps
    /\ idx' = 1
    /\ published' = <<>>
    /\ sweeps' = sweeps + 1
    /\ UNCHANGED <<pc, brokerVars, agentVars, samplerVars, elapsed, sleepFor, exit, failures>>

\* the sweep is over: t1 is read and time.sleep is entered
EndSweep ==
    /\ pc = "sweep"
    /\ idx = Len(entities) + 1
    /\ \E dt \in 0 .. MaxElapsed :
          /\ elapsed' = dt
          /\ sleepFor' = SleepTime(interval, dt)
    /\ pc' = "sleep"
    /\ UNCHANGED <<brokerVars, agentVars, samplerVars, idx, published, sweeps, exit, failures>>

\* time.sleep returns: the next sweep starts
Wake ==
    /\ pc = "sleep"
    /\ sweeps < MaxSweeps
    /\ pc' = "sweep"
    /\ idx' = 1
    /\ published' = <<>>
    /\ sweeps' = sweeps + 1
    /\ elapsed' = 0
    /\ sleepFor' = 0
    /\ UNCHANGED <<brokerVars, agentVars, samplerVars, exit, failures>>

\* KeyboardInterrupt is raised at the point publish has reached, in the sweep
\* or in the sleep: what is left of the sweep is not run
Interrupt ==
    /\ pc \in {"sweep", "sleep"}
    /\ pc' = "raised"
    /\ exit' = "KeyboardInterrupt"
    /\ UNCHANGED <<brokerVars, agentVars, samplerVars, idx, published, sweeps, elapsed,
                   sleepFor, failures>>

\* a mutant of Caught: publish has no handler
Caught_None(exc) == FALSE

\* publish: "except KeyboardInterrupt"
Caught(exc) == exc = "KeyboardInterrupt"

\* the exception leaves the while loop: "except KeyboardInterrupt: pass" and
\* publish returns, or the exception leaves publish
Except ==
    /\ pc = "raised"
    /\ pc' = IF Caught(exit) THEN "stopped" ELSE "crashed"
    /\ UNCHANGED <<brokerVars, agentVars, samplerVars, loopVars>>

LoopPartitions == [device : {S_dev_sda1}, mountpoint : {S_root}, fstype : {S_ext4}]

LInit ==
    /\ pc = "new"
    /\ ncpu \in 1 .. MaxLoopCores
    /\ disk_parts \in SeqsUpTo(LoopPartitions, MaxLoopParts)
    /\ mid = S_abc123
    /\ host_alias = S_host
    /\ prod_name = S_product
    /\ interval \in 0 .. MaxInterval
    /\ entities = <<>>
    /\ discovery = <<>>
    /\ NoSampler
    /\ NoLoop
    /\ NoBroker

LNext ==
    \/ Construct
    \/ StartPublish
    \/ PubCpu
    \/ PubDisk
    \/ PubDiskRaises
    \/ PubUptime
    \/ EndSweep
    \/ Wake
    \/ Interrupt
    \/ Except

SpecLoop == LInit /\ [][LNext]_vars

\* the positions of the current sweep's calls of _pub that published a CPU entity
CpuCalls == {k \in 1 .. Len(published) : entities[k].get.kind = "cpu"}

\* C3: the aggregate and per-core values published in one sweep all come from
\* one OS sample, the one in memory, and read what that sample holds; the
\* sample of a sweep is taken by a CPU getter call of that sweep exactly when
\* the call asks for a key that was already served, which is the first CPU
\* getter call of every sweep after the first and no other call.
C3_OneSamplePerSweep ==
    \A k \in CpuCalls :
        LET c == published[k]
            what == entities[k].get.what
        IN  /\ c.sample = nsamples
            /\ c.value = NumVal(Reading(what, cpu_usage, cpu_usage_avrg))
            /\ c.resampled <=> c.repeat
            /\ c.resampled <=> (sweeps >= 2 /\ k = CHOOSE j \in CpuCalls :
                                                 \A i \in CpuCalls : j <= i)

\* a sweep after the first has published the aggregate and every core
C3_Witness ==
    /\ sweeps >= 2
    /\ ncpu = MaxLoopCores
    /\ Cardinality(CpuCalls) = ncpu + 1
    /\ published[1].resampled

\* C8: the sleep after a sweep is max(0, interval - elapsed): interval -
\* elapsed after a sweep shorter than the interval, 0 after a sweep as long as
\* the interval or longer, never negative.
C8_SleepTime ==
    pc = "sleep" =>
        /\ sleepFor >= 0
        /\ elapsed < interval => sleepFor = interval - elapsed
        /\ elapsed >= interval => sleepFor = 0
        /\ \A x \in {0, interval - elapsed} : sleepFor >= x
        /\ sleepFor \in {0, interval - elapsed}

\* the loop sleeps after a sweep that took longer than the interval
C8_Witness ==
    /\ pc = "sleep"
    /\ elapsed > interval
    /\ interval > 0
    /\ sleepFor = 0

\* C10 as claimed: publish is left only by the interruption signal; a getter
\* that fails does not end the loop.
C10_Claimed == pc \notin {"sweep", "sleep"} /\ sweeps > 0 => exit = "KeyboardInterrupt"

\* C11 as claimed: an interruption signal that arrives while a sweep is in
\* progress does not abort the sweep; when the signal has ended the loop, every
\* entity of the sweep it arrived in was read and handed to _pub.
C11_Claimed ==
    exit = "KeyboardInterrupt" =>
        /\ idx = Len(entities) + 1
        /\ Len(published) = Len(entities)

\* C13 as claimed: when a sweep is complete, _pub was called exactly once per
\* entity, in registry order, and each call handed to the Transport Sink the
\* topic of its entity and the value the getter of that entity returned.
C13_Claimed ==
    pc = "sleep" =>
        /\ Len(published) = Len(entities)
        /\ \A k \in 1 .. Len(published) :
              /\ published[k].topic = entities[k].state_topic
              /\ SentBy(published[k]).topic = entities[k].state_topic
              /\ SentBy(published[k]).message = ValueText(published[k].value)
              /\ SentBy(published[k]).stray = <<>>

\* C14: sweeps and sleeps alternate. A sweep starts only when publish is
\* called or when a sleep returns, and then exactly one sweep starts; a sweep
\* that ran to its end is followed by the sleep, of length max(0, interval -
\* elapsed), and by nothing else; the sleep is left only for the next sweep
\* (or by an exception). So a sweep longer than the interval is followed by a
\* sleep of length zero and then by exactly one sweep.
C14_Alternation ==
    [][ /\ (sweeps' # sweeps) =>
              /\ sweeps' = sweeps + 1
              /\ pc' = "sweep"
              /\ idx' = 1
              /\ pc = "sleep" \/ (pc = "ready" /\ sweeps = 0)
        /\ (pc = "sweep" /\ pc' # "sweep") =>
              \/ pc' = "raised"
              \/ /\ pc' = "sleep"
                 /\ idx = Len(entities) + 1
                 /\ sweeps' = sweeps
                 /\ sleepFor' = IF elapsed' > interval THEN 0 ELSE interval - elapsed'
        /\ (pc = "sweep" /\ pc' = "sweep") => sweeps' = sweeps
        /\ (pc = "sleep" /\ pc' # "sleep") =>
              \/ pc' = "raised"
              \/ pc' = "sweep" /\ sweeps' = sweeps + 1 ]_vars

\* the last sweep of the run came after a sleep and took longer than the
\* interval: the loop sleeps for no time
C14_Witness ==
    /\ pc = "sleep"
    /\ sweeps = MaxSweeps
    /\ elapsed > interval
    /\ sleepFor = 0

\* C15: a call of _pub whose status is not zero logs a warning that names the
\* topic and the value of the call, and nothing else happens: no exception
\* leaves the sweep, the call is not repeated (call k of the sweep is the one
\* of entity k), the next entity can be published, and the sweep ends with one
\* call per entity; the sleep that follows leads to the next sweep.
C15_FailureLoggedLoopContinues ==
    /\ \A k \in 1 .. Len(published) :
          LET c == published[k] IN
          /\ c.topic = entities[k].state_topic
          /\ c.rc # 0 => c.log = [level |-> "warning", value |-> c.value, topic |-> c.topic]
          /\ c.rc = 0 => c.log.level = "debug"
    /\ pc = "sweep" =>
          /\ Len(published) = idx - 1
          /\ exit = ""
          /\ idx <= Len(entities) => ENABLED (PubCpu \/ PubDisk \/ PubUptime)
          /\ idx = Len(entities) + 1 => ENABLED EndSweep
    /\ pc = "sleep" =>
          /\ Len(published) = Len(entities)
          /\ sweeps < MaxSweeps => ENABLED Wake

\* a call failed in the first sweep, and the second sweep was published in
\* full with no failure
C15_Witness ==
    /\ pc = "sleep"
    /\ sweeps = 2
    /\ failures >= 1
    /\ Len(published) = Len(entities)
    /\ \A k \in 1 .. Len(published) : published[k].rc = 0

\* C18: when k >= 1 sweeps are complete, psutil.cpu_percent was called
\* exactly k times: once by CPUUsage() and once by the first getter call of
\* every sweep after the first. The first sweep takes no sample and publishes
\* the sample of the construction.
C18_SamplesPerSweep ==
    /\ pc = "ready" => nsamples = 1
    /\ pc = "sleep" => nsamples = sweeps
    /\ (pc = "sweep" /\ published # <<>>) => nsamples = sweeps
    /\ (pc = "sweep" /\ published = <<>>) =>
          nsamples = IF sweeps = 1 THEN 1 ELSE sweeps - 1
    /\ (pc \in {"sweep", "sleep"} /\ sweeps = 1) =>
          \A k \in CpuCalls : published[k].sample = 1 /\ ~published[k].resampled
    /\ (pc \in {"sweep", "sleep"} /\ sweeps > 1 /\ published # <<>>) =>
          /\ published[1].resampled
          /\ \A k \in CpuCalls : k > 1 => ~published[k].resampled

\* the last sweep of the run is complete
C18_Witness ==
    /\ pc = "sleep"
    /\ sweeps = MaxSweeps
    /\ nsamples = MaxSweeps
    /\ ncpu = MaxLoopCores

\* the per-core values published so far in the running sweep, by core
PublishedCores == [k \in 1 .. ncpu |-> published[k + 1].value.tenths]

FInit ==
    /\ LInit
    /\ interval = MaxInterval
    /\ Len(disk_parts) = MaxLoopParts

SpecLoopFair == FInit /\ [][LNext]_vars /\ WF_vars(Except)

\* C20: once KeyboardInterrupt is delivered to the running publish loop, in a
\* sweep or in the sleep, publish eventually is stopped: it returns and the
\* exception does not leave it; and once it is stopped no getter is read, no
\* OS CPU sample is taken and no call of _pub is made any more.
C20_InterruptStops ==
    /\ (pc = "raised" /\ exit = "KeyboardInterrupt") ~> (pc = "stopped")
    /\ [](exit = "KeyboardInterrupt" => pc \in {"raised", "stopped"})
    /\ [](pc = "stopped" => exit = "KeyboardInterrupt")
    /\ [][pc = "stopped" =>
             /\ pc' = "stopped"
             /\ published' = published
             /\ samplerVars' = samplerVars
             /\ failures' = failures
             /\ sweeps' = sweeps]_vars

\* publish was interrupted in the middle of a sweep after the first, with
\* entities left to publish, and has stopped
C20_Witness ==
    /\ pc = "stopped"
    /\ exit = "KeyboardInterrupt"
    /\ sweeps >= 2
    /\ published # <<>>
    /\ Len(published) < Len(entities)

(* ------------------- json.dumps(sort_keys, indent=4) ------------------- *)

\* the keys of the discovery document
K_origin == <<"o", "r", "i", "g", "i", "n">>
K_components == <<"c", "o", "m", "p", "o", "n", "e", "n", "t", "s">>
K_device == <<"d", "e", "v", "i", "c", "e">>
K_name == <<"n", "a", "m", "e">>
K_platform == <<"p", "l", "a", "t", "f", "o", "r", "m">>
K_state_topic == <<"s", "t", "a", "t", "e", "_", "t", "o", "p", "i", "c">>
K_unique_id == <<"u", "n", "i", "q", "u", "e", "_", "i", "d">>
K_unit_of_measurement == <<"u", "n", "i", "t", "_", "o", "f", "_", "m", "e", "a", "s", "u", "r", "e", "m", "e", "n", "t">>
K_identifiers == <<"i", "d", "e", "n", "t", "i", "f", "i", "e", "r", "s">>
K_model == <<"m", "o", "d", "e", "l">>

S_null == <<"n", "u", "l", "l">>
S_host_bs == <<"l", "a", "b", "\\", "p", "i", "4">>
S_config_prefix == <<"h", "o", "m", "e", "a", "s", "s", "i", "s", "t", "a", "n", "t", "/", "d", "e", "v", "i", "c", "e", "/">>
S_config_suffix == <<"/", "c", "o", "n", "f", "i", "g">>

\* JSON values: a string, null, a list, a dict (a function of its keys)
JS(str) == [t |-> "str", s |-> str, items |-> <<>>]
JNull == [t |-> "null", s |-> <<>>, items |-> <<>>]
JA(items) == [t |-> "arr", s |-> <<>>, items |-> items]
JO(items) == [t |-> "obj", s |-> <<>>, items |-> items]

\* the value of an optional string
JOpt(o) == IF o.some THEN JS(o.val) ELSE JNull

\* json's escape of one character of a string (ensure_ascii; the model's
\* characters are ASCII, and newline is the only control character)
JsonChar(c) ==
    IF c = "\"" THEN <<"\\", "\"">>
    ELSE IF c = "\\" THEN <<"\\", "\\">>
    ELSE IF c = "\n" THEN <<"\\", "n">>
    ELSE <<c>>

\* json's encoding of a string
JsonStr(str) == <<"\"">> \o Cat([i \in 1 .. Len(str) |-> JsonChar(str[i])]) \o <<"\"">>

\* a < b for strings, as Python compares them: by code point
LexLess(a, b) ==
    \E i \in 1 .. Len(b) :
        /\ i <= Len(a) + 1
        /\ \A j \in 1 .. i - 1 : a[j] = b[j]
        /\ i = Len(a) + 1 \/ Ord(a[i]) < Ord(b[i])

\* sort_keys: the keys of a dict in increasing order
SortedKeys(keys) ==
    [r \in 1 .. Cardinality(keys) |->
        CHOOSE k \in keys : Cardinality({x \in keys : LexLess(x, k)}) = r - 1]

\* string.join
Join(strs, sep) ==
    Cat([i \in 1 .. 2 * Len(strs) - 1 |->
            IF i % 2 = 1 THEN strs[(i + 1) \div 2] ELSE sep])

\* indent=4: the line break and indentation before an item at nesting level lvl
NewlineIndent(lvl) == <<"\n">> \o [i \in 1 .. 4 * lvl |-> " "]

\* json.dumps(v, sort_keys=True, indent=4), v at nesting level lvl
RECURSIVE Dump(_, _)
Dump(v, lvl) ==
    CASE v.t = "str" -> JsonStr(v.s)
      [] v.t = "null" -> S_null
      [] v.t = "arr" ->
            IF Len(v.items) = 0 THEN <<"[", "]">>
            ELSE <<"[">> \o NewlineIndent(lvl + 1)
                 \o Join([i \in 1 .. Len(v.items) |-> Dump(v.items[i], lvl + 1)],
                         <<",">> \o NewlineIndent(lvl + 1))
                 \o NewlineIndent(lvl) \o <<"]">>
      [] v.t = "obj" ->
            IF DOMAIN v.items = {} THEN <<"{", "}">>
            ELSE LET ks == SortedKeys(DOMAIN v.items)
                 IN  <<"{">> \o NewlineIndent(lvl + 1)
                     \o Join([i \in 1 .. Len(ks) |->
                                JsonStr(ks[i]) \o <<":", " ">>
                                \o Dump(v.items[ks[i]], lvl + 1)],
                             <<",">> \o NewlineIndent(lvl + 1))
                     \o NewlineIndent(lvl) \o <<"}">>

\* the dict data of _generate_discovery_JSON as a JSON value
DiscoveryValue(data) ==
    JO( (K_origin :> JO(K_name :> JS(data.origin.name)))
     @@ (K_components :>
            JO([key \in DOMAIN data.components |->
                  LET c == data.components[key]
                  IN  JO( (K_name :> JS(c.name))
                       @@ (K_platform :> JS(c.platform))
                       @@ (K_state_topic :> JS(c.state_topic))
                       @@ (K_unique_id :> JS(c.unique_id))
                       @@ (K_unit_of_measurement :> JOpt(c.unit_of_measurement)) )]))
     @@ (K_device :>
            JO( (K_name :> JS(data.device.name))
             @@ (K_identifiers :>
                    JA([i \in 1 .. Len(data.device.identifiers) |->
                          JS(data.device.identifiers[i])]))
             @@ (K_model :> JS(data.device.model)) )) )

\* _generate_discovery_JSON: the string it returns
DiscoveryJSON(ents, m, alias, model) ==
    Dump(DiscoveryValue(DiscoveryData(ents, m, alias, model)), 0)

(* ------------------------- expose and remove --------------------------- *)

\* how many expose and remove commands one run makes at most
MaxOps == 3

\* expose: .replace('"', r'\"')
EscapeQuotes(str) ==
    Cat([i \in 1 .. Len(str) |-> IF str[i] = "\"" THEN <<"\\", "\"">> ELSE <<str[i]>>])

\* the number of backslashes right before position i
RECURSIVE RunBefore(_, _)
RunBefore(str, i) ==
    IF i > 1 /\ str[i - 1] = "\\" THEN 1 + RunBefore(str, i - 1) ELSE 0

\* the characters a backslash quotes inside a shell's double quotes
DQSpecial == {"$", "BACKTICK", "\"", "\\", "\n"}

\* position i holds a backslash that quotes the character after it
Quotes(str, i) ==
    /\ str[i] = "\\"
    /\ i < Len(str)
    /\ str[i + 1] \in DQSpecial
    /\ RunBefore(str, i) % 2 = 0

\* subprocess.run(cmd, shell=True): the argument sh passes on for the text
\* str between double quotes. A backslash before $, backquote, double quote,
\* backslash or newline is removed (with the newline); any other character
\* stands for itself (the model's strings hold no $ and no backquote, and
\* every double quote of str follows a backslash)
ShellDQ(str) ==
    Cat([i \in 1 .. Len(str) |->
            IF Quotes(str, i) THEN <<>>
            ELSE IF i > 1 /\ Quotes(str, i - 1) /\ str[i] = "\n" THEN <<>>
            ELSE <<str[i]>>])

\* f"homeassistant/device/{self.mid}/config"
ConfigTopic(m) == S_config_prefix \o m \o S_config_suffix

\* the broker after a retained publish: an empty payload clears the topic
Retain(topic, payload) ==
    IF payload = <<>>
    THEN [t \in DOMAIN retained \ {topic} |-> retained[t]]
    ELSE [t \in DOMAIN retained \cup {topic} |->
            IF t = topic THEN payload ELSE retained[t]]

\* the retained payload of a topic; empty when the broker holds none
RetainedAt(topic) == IF topic \in DOMAIN retained THEN retained[topic] ELSE <<>>

\* remove: -m ""
RemovePayload == <<>>

\* subprocess.run(cmd, shell=True, check=True): a status that is not zero
\* raises CalledProcessError
CheckRaises(rc) == rc # 0

\* one call of subprocess.run by expose or remove: the command, the status
\* mosquitto_pub returned, and what the method logged after the call returned
\* (log.info(... successful); nothing when the call raised)
ConfigCall(op, topic, payload, rc) ==
    [op |-> op, topic |-> topic, payload |-> payload, rc |-> rc,
     log |-> IF CheckRaises(rc) THEN <<>> ELSE <<"info">>]

\* expose: mosquitto_pub -r -t homeassistant/device/{mid}/config -m "{js}"
Expose ==
    /\ pc = "ready"
    /\ Len(ops) < MaxOps
    /\ LET js == EscapeQuotes(DiscoveryJSON(entities, mid, host_alias, prod_name))
           topic == ConfigTopic(mid)
           payload == ShellDQ(js)
       IN  \E rc \in {0, 1} :
              /\ ops' = Append(ops, ConfigCall("expose", topic, payload, rc))
              /\ retained' = IF rc = 0 THEN Retain(topic, payload) ELSE retained
              /\ pc' = IF CheckRaises(rc) THEN "failed" ELSE "ready"
    /\ discovery' = <<DiscoveryData(entities, mid, host_alias, prod_name)>>
    /\ UNCHANGED <<inputVars, entities, samplerVars, loopVars>>

\* remove: mosquitto_pub -r -t homeassistant/device/{mid}/config -m ""
Remove ==
    /\ pc = "ready"
    /\ Len(ops) < MaxOps
    /\ LET topic == ConfigTopic(mid)
           payload == ShellDQ(RemovePayload)
       IN  \E rc \in {0, 1} :
              /\ ops' = Append(ops, ConfigCall("remove", topic, payload, rc))
              /\ retained' = IF rc = 0 THEN Retain(topic, payload) ELSE retained
              /\ pc' = IF CheckRaises(rc) THEN "failed" ELSE "ready"
    /\ UNCHANGED <<agentVars, samplerVars, loopVars>>

\* the host aliases of the configuration: any string
HostAliases == {S_host, S_host_bs}

CInit ==
    /\ pc = "new"
    /\ ncpu \in 1 .. MaxLoopCores
    /\ disk_parts \in SeqsUpTo(LoopPartitions, MaxLoopParts)
    /\ mid \in MachineIds
    /\ host_alias \in HostAliases
    /\ prod_name = S_product
    /\ interval = 2
    /\ entities = <<>>
    /\ discovery = <<>>
    /\ NoSampler
    /\ NoLoop
    /\ NoBroker

CNext == Construct \/ Expose \/ Remove

SpecConfig == CInit /\ [][CNext]_vars

\* C9 as claimed: after expose and remove calls that all succeeded, every one
\* wrote the topic homeassistant/device/{mid}/config, and the payload retained
\* there is empty when the last call was remove and is the discovery document
\* when the last call was expose.
C9_Claimed ==
    (pc = "ready" /\ ops # <<>>) =>
        /\ \A i \in 1 .. Len(ops) : ops[i].topic = ConfigTopic(mid)
        /\ DOMAIN retained \subseteq {ConfigTopic(mid)}
        /\ ops[Len(ops)].op = "remove" => RetainedAt(ConfigTopic(mid)) = <<>>
        /\ ops[Len(ops)].op = "expose" =>
              RetainedAt(ConfigTopic(mid)) =
                  DiscoveryJSON(entities, mid, host_alias, prod_name)

\* C16 as claimed: every call of expose or remove made one call of the
\* Transport Sink, and a call that reported failure was logged.
C16_Claimed ==
    \A i \in 1 .. Len(ops) :
        /\ ops[i].topic = ConfigTopic(mid)
        /\ ops[i].rc # 0 => ops[i].log # <<>>

(* ------------- the agent with any command: SpecAgent ------------------- *)

\* the machine may report no core at all
AInit ==
    /\ pc = "new"
    /\ ncpu \in 0 .. MaxLoopCores
    /\ disk_parts \in SeqsUpTo(LoopPartitions, MaxLoopParts)
    /\ mid = S_abc123
    /\ host_alias = S_host
    /\ prod_name = S_product
    /\ interval = 0
    /\ entities = <<>>
    /\ discovery = <<>>
    /\ NoSampler
    /\ NoLoop
    /\ NoBroker

\* the agent is constructed, then a client calls its commands: expose or
\* remove (one call here), or publish
ANext ==
    \/ Construct
    \/ (ops = <<>> /\ Expose)
    \/ (ops = <<>> /\ Remove)
    \/ StartPublish
    \/ PubCpu
    \/ PubDisk
    \/ PubDiskRaises
    \/ PubUptime
    \/ EndSweep
    \/ Wake
    \/ Interrupt
    \/ Except

SpecAgent == AInit /\ [][ANext]_vars

\* C12: on a machine that reports N = 0 cores the construction of the agent
\* ends in an error and produces no registry (and no sampler): no sweep is
\* started, nothing is published, and no expose or remove command runs.
C12_ZeroCoresRejected ==
    ncpu = 0 =>
        /\ pc \in {"new", "error"}
        /\ entities = <<>>
        /\ NoSampler
        /\ NoLoop
        /\ NoBroker
        /\ discovery = <<>>

\* the construction on a machine with no core has ended in the error
C12_Witness ==
    /\ ncpu = 0
    /\ pc = "error"
    /\ entities = <<>>

====
